---- MODULE Spec2Model ----
(***************************************************************************)
(* Model of scripts/fuzz_runner.py: the asyncio job orchestration of       *)
(* main_async / run_one / run_job / stream_process and the report builder  *)
(* make_report_json.                                                       *)
(*                                                                         *)
(* Every task action is one slice of a coroutine between two suspension    *)
(* points (await).  None is modelled as the empty sequence <<>> and a      *)
(* present optional value v as <<v>>.  Execution ids are strings, modelled *)
(* as sequences of character codes compared as Python compares str.       *)
(***************************************************************************)
EXTENDS Integers, Sequences, FiniteSets, TLC

\* ----------------------------------------------------------------- bounds
MaxSpecs == 2      \* at most this many execution specs are submitted
MaxLines == 1      \* output lines a process emits before EOF (at most)
MaxReportN == 3    \* size of the result sets fed to make_report_json alone

\* ------------------------------------------------------------ value spaces
AllIds == << <<2>>, <<1, 2>>, <<1>>, <<2, 1>>, <<1, 1>>, <<2, 2>> >>

IdPool(n) == {AllIds[i] : i \in 1..n}

ExitCodes == {0, 1}

Statuses == {"queued", "running", "passed", "failed", "cancelled"}

Terminal == {"passed", "failed", "cancelled"}

RECURSIVE Distinct(_)
Distinct(s) ==
    IF s = <<>> THEN TRUE
    ELSE (\A i \in 2..Len(s) : s[i] # Head(s)) /\ Distinct(Tail(s))

Range(s) == {s[i] : i \in 1..Len(s)}

\* str.__lt__ on execution ids
RECURSIVE LexLess(_, _)
LexLess(a, b) ==
    IF a = <<>> THEN b # <<>>
    ELSE IF b = <<>> THEN FALSE
    ELSE IF Head(a) # Head(b) THEN Head(a) < Head(b)
    ELSE LexLess(Tail(a), Tail(b))

\* --------------------------------------------------------------- variables
VARIABLES
    jobs,             \* args.jobs, the concurrency ceiling
    execs,            \* the execution ids left after filter_executions, in order
    mainpc,           \* position of main_async
    rc,               \* value returned by main_async (<<>> while running)
    results,          \* results: Dict[str, JobResult]
    tasks,            \* keys of the tasks dict
    pc,               \* position of each run_one task
    exc,              \* the exception a task ended with ("none" if none)
    job_dir,          \* does <out_dir>/<id>/ exist
    sem_value,        \* asyncio.Semaphore._value
    sem_waiters,      \* asyncio.Semaphore._waiters, FIFO
    proc,             \* child process of the job: "none", "alive", "exited"
    log_open,         \* is the job's log file open
    spawns,           \* number of processes spawned for the job
    compile_rc,       \* exit code of the job's compile phase (<<>> if none yet)
    nlines,           \* lines read from the current process
    stop,             \* the asyncio.Event set by handle_sigint
    sigint_handler,   \* is handle_sigint installed
    first_done,       \* id of the task that finished first (<<>> if none yet)
    report,           \* the value returned by make_report_json
    report_written,   \* have the report files been written
    pom,              \* execution ids read_pom_executions finds in the profile
    pattern,          \* args.filter (<<>> if not given)
    args_list,        \* args.list
    job,              \* one job seen from inside run_job (see the job section)
    paths,            \* per-job paths main_async derives from the ids
    names,            \* entry names of a directory handed to _ignore
    copied,           \* the entries of that directory copytree copies
    printed           \* i of status_printer: the summaries it has written

corevars == <<jobs, execs, mainpc, rc, results, tasks, pc, exc, job_dir, sem_value,
              sem_waiters, proc, log_open, spawns, compile_rc, nlines, stop,
              sigint_handler, first_done, report, report_written>>

\* the inputs of main_async, and the state of the parts modelled on their own
auxvars == <<pom, pattern, args_list, job, paths, names, copied, printed>>

vars == <<corevars, auxvars>>

jobvars == <<pc, exc, job_dir, proc, log_open, spawns, compile_rc, nlines>>

\* ---------------------------------------------------------------- records
JobResult(status, execution, start_time, end_time, exit_code, command) ==
    [status |-> status, execution |-> execution, start_time |-> start_time,
     end_time |-> end_time, exit_code |-> exit_code, command |-> command]

\* the placeholder entries of the jobs map
QueuedResult(e) == JobResult("queued", e, FALSE, FALSE, <<>>, "None")

StatusOfExit_passed(exit_code) == "passed"

\* status after proc.wait()
StatusOfExit(exit_code) == IF exit_code = 0 THEN "passed" ELSE "failed"

\* ------------------------------------------------------- make_report_json
count_status_drift(res, s) ==
    IF s = "cancelled"
    THEN Cardinality({k \in DOMAIN res : res[k].status \notin {"passed", "failed"}})
    ELSE Cardinality({k \in DOMAIN res : res[k].status = s})

count_status(res, s) == Cardinality({k \in DOMAIN res : res[k].status = s})

RECURSIVE sorted_reverse(_)
sorted_reverse(S) ==
    IF S = {} THEN <<>>
    ELSE LET m == CHOOSE x \in S : \A y \in S \ {x} : LexLess(y, x)
         IN  <<m>> \o sorted_reverse(S \ {m})

RECURSIVE sorted(_)
sorted(S) ==
    IF S = {} THEN <<>>
    ELSE LET m == CHOOSE x \in S : \A y \in S \ {x} : LexLess(x, y)
         IN  <<m>> \o sorted(S \ {m})

make_report_json(res) ==
    LET ks == sorted(DOMAIN res)
    IN  [summary |-> [total     |-> Cardinality(DOMAIN res),
                      passed    |-> count_status(res, "passed"),
                      failed    |-> count_status(res, "failed"),
                      cancelled |-> count_status(res, "cancelled")],
         tests   |-> [i \in 1..Len(ks) |->
                        [id        |-> res[ks[i]].execution,
                         status    |-> res[ks[i]].status,
                         exit_code |-> res[ks[i]].exit_code,
                         command   |-> res[ks[i]].command]]]

NoReport == [summary |-> [total |-> 0, passed |-> 0, failed |-> 0, cancelled |-> 0],
             tests |-> <<>>]

\* ------------------------------------------------------------------- Init
Ids == Range(execs)

Index(k) == CHOOSE i \in 1..Len(execs) : execs[i] = k

\* the submitted lists: the first n ids of AllIds, which is not in sorted order
SpecLists == {SubSeq(AllIds, 1, n) : n \in 0..MaxSpecs}

\* FuzzExecution.test_spec of the execution with this id: a class name, here
\* one character no id contains, then "#" and a method, here the id
test_spec(execution_id) == <<3>> \o execution_id

\* the values of --filter: not given, "a", "cb" and a string nothing contains
Patterns == {<<>>, <<1>>, <<3, 2>>, <<4>>}

\* Python's "pat in s" on str
Contains(pat, s) ==
    \E i \in 0..(Len(s) - Len(pat)) : SubSeq(s, i + 1, i + Len(pat)) = pat

filter_executions(es, pat) ==
    IF pat = <<>> THEN es
    ELSE SelectSeq(es, LAMBDA e : Contains(pat, e) \/ Contains(pat, test_spec(e)))

\* the parts modelled on their own are idle during a run of main_async
InitIdle ==
    /\ job = <<>>
    /\ paths = <<>>
    /\ names = {}
    /\ copied = {}
    /\ printed = 0

InitCommon ==
    /\ rc = <<>>
    /\ tasks = {}
    /\ sem_waiters = <<>>
    /\ stop = FALSE
    /\ sigint_handler = TRUE
    /\ first_done = <<>>
    /\ report = NoReport
    /\ report_written = FALSE

Init ==
    /\ pom \in SpecLists
    /\ pattern \in Patterns
    /\ args_list \in BOOLEAN
    /\ execs = filter_executions(pom, pattern)
    /\ InitIdle
    /\ jobs \in 1..MaxSpecs
    /\ mainpc = "start"
    /\ results = <<>>
    /\ pc = [k \in Ids |-> "none"]
    /\ exc = [k \in Ids |-> "none"]
    /\ job_dir = [k \in Ids |-> FALSE]
    /\ proc = [k \in Ids |-> "none"]
    /\ log_open = [k \in Ids |-> FALSE]
    /\ spawns = [k \in Ids |-> 0]
    /\ compile_rc = [k \in Ids |-> <<>>]
    /\ nlines = [k \in Ids |-> 0]
    /\ sem_value = 0
    /\ InitCommon

\* ------------------------------------------------------------ main_async
mainvars == <<jobs, execs, mainpc, rc, tasks, stop, sigint_handler, report,
              report_written>>

\* read_pom_executions: "if not executions: raise RuntimeError"; main_async
\* ends by that exception at its call
DiscoveryError ==
    /\ mainpc = "start"
    /\ pom = <<>>
    /\ mainpc' = "discovery_error"
    /\ UNCHANGED <<jobs, execs, rc, results, tasks, sem_value, sem_waiters, stop,
                   sigint_handler, first_done, report, report_written>>
    /\ UNCHANGED jobvars
    /\ UNCHANGED auxvars

\* "if args.list": print the executions left after filtering, return 0
ListOnly ==
    /\ mainpc = "start"
    /\ pom # <<>>
    /\ args_list
    /\ rc' = <<0>>
    /\ mainpc' = "returned"
    /\ UNCHANGED <<jobs, execs, results, tasks, sem_value, sem_waiters, stop,
                   sigint_handler, first_done, report, report_written>>
    /\ UNCHANGED jobvars
    /\ UNCHANGED auxvars

no_execs_never(es) == FALSE

\* "if not execs"
no_execs(es) == es = <<>>

\* nothing is left after filtering: return 1 before any job exists
NoExecs ==
    /\ mainpc = "start"
    /\ pom # <<>>
    /\ ~args_list
    /\ no_execs(execs)
    /\ rc' = <<1>>
    /\ mainpc' = "returned"
    /\ UNCHANGED <<jobs, execs, results, tasks, sem_value, sem_waiters, stop,
                   sigint_handler, first_done, report, report_written>>
    /\ UNCHANGED jobvars
    /\ UNCHANGED auxvars

\* the jobs map, the semaphore and one task per execution, up to the first await
Schedule ==
    /\ mainpc = "start"
    /\ pom # <<>>
    /\ ~args_list
    /\ ~no_execs(execs)
    /\ results' = [k \in Ids |-> QueuedResult(k)]
    /\ sem_value' = jobs
    /\ tasks' = Ids
    /\ pc' = [k \in Ids |-> "created"]
    /\ mainpc' = "loop"
    /\ UNCHANGED <<jobs, execs, rc, sem_waiters, stop, sigint_handler, first_done,
                   report, report_written>>
    /\ UNCHANGED <<exc, job_dir, proc, log_open, spawns, compile_rc, nlines>>
    /\ UNCHANGED auxvars

sem_release_lost(value) == value

\* Semaphore.release, called by "async with sem" on every way out of its body
sem_release(value) == value + 1

\* ------------------------------------------------------- run_one / run_job
locked_never == FALSE

\* asyncio.Semaphore.locked(), the test "async with sem" makes before it waits
locked == sem_value = 0 \/ sem_waiters # <<>>

\* what run_job finds and gets when it prepares <job_root>/work
WorkspaceOutcomes == {"exists", "copied", "copy_error", "mkdir_error"}

\* run_job from its first line to its first await, the slot just acquired.
\* copy_error: copytree raised after creating the destination; mkdir_error:
\* copytree could not create the destination.  Either leaves run_job and
\* "async with sem" by exception, which releases the slot again.
run_job_enter(k, fs) ==
    IF fs \in {"exists", "copied"}
    THEN /\ results' = [results EXCEPT ![k].status = "queued",
                                       ![k].command = "compile"]
         /\ pc' = [pc EXCEPT ![k] = "compile_spawn"]
         /\ job_dir' = [job_dir EXCEPT ![k] = TRUE]
         /\ sem_value' = sem_value - 1
         /\ UNCHANGED <<exc, first_done>>
    ELSE /\ results' = [results EXCEPT ![k].status = "queued"]
         /\ pc' = [pc EXCEPT ![k] = "raised"]
         /\ exc' = [exc EXCEPT ![k] = fs]
         /\ job_dir' = [job_dir EXCEPT ![k] = @ \/ fs = "copy_error"]
         /\ sem_value' = sem_value
         /\ first_done' = IF first_done = <<>> THEN <<k>> ELSE first_done

StartsInAnyOrder(k) == TRUE

\* the event loop runs the first slice of the tasks in the order in which
\* create_task was called, which is the order of execs
StartsInOrder(k) == \A i \in 1..(Index(k) - 1) : pc[execs[i]] # "created"

\* first slice of a task; the loop runs them in creation order
TaskStart(k) ==
    /\ mainpc = "loop"
    /\ pc[k] = "created"
    /\ StartsInOrder(k)
    /\ IF locked
       THEN /\ pc' = [pc EXCEPT ![k] = "waiting"]
            /\ sem_waiters' = Append(sem_waiters, k)
            /\ UNCHANGED <<results, exc, job_dir, sem_value, first_done>>
       ELSE /\ \E fs \in WorkspaceOutcomes : run_job_enter(k, fs)
            /\ UNCHANGED sem_waiters
    /\ UNCHANGED mainvars
    /\ UNCHANGED auxvars
    /\ UNCHANGED <<proc, log_open, spawns, compile_rc, nlines>>

Started == \A k \in Ids : pc[k] # "created"

\* a waiter woken by a release takes the slot
Admit(k) ==
    /\ mainpc = "loop"
    /\ Started
    /\ pc[k] = "waiting"
    /\ sem_waiters # <<>>
    /\ Head(sem_waiters) = k
    /\ sem_value > 0
    /\ sem_waiters' = Tail(sem_waiters)
    /\ \E fs \in WorkspaceOutcomes : run_job_enter(k, fs)
    /\ UNCHANGED mainvars
    /\ UNCHANGED auxvars
    /\ UNCHANGED <<proc, log_open, spawns, compile_rc, nlines>>

\* --------------------------------------------------------- stream_process
\* create_subprocess_exec for the compile step (run_job line 271, not in a try)
SpawnCompile(k) ==
    /\ mainpc = "loop"
    /\ Started
    /\ pc[k] = "compile_spawn"
    /\ \E ok \in BOOLEAN :
         IF ok
         THEN /\ proc' = [proc EXCEPT ![k] = "alive"]
              /\ spawns' = [spawns EXCEPT ![k] = @ + 1]
              /\ results' = [results EXCEPT ![k].start_time = TRUE,
                                            ![k].status = "running"]
              /\ log_open' = [log_open EXCEPT ![k] = TRUE]
              /\ nlines' = [nlines EXCEPT ![k] = 0]
              /\ pc' = [pc EXCEPT ![k] = "compile_read"]
              /\ UNCHANGED <<exc, sem_value, first_done>>
         ELSE /\ pc' = [pc EXCEPT ![k] = "raised"]
              /\ exc' = [exc EXCEPT ![k] = "spawn"]
              /\ sem_value' = sem_release(sem_value)
              /\ first_done' = IF first_done = <<>> THEN <<k>> ELSE first_done
              /\ UNCHANGED <<proc, spawns, results, log_open, nlines>>
    /\ UNCHANGED mainvars
    /\ UNCHANGED auxvars
    /\ UNCHANGED <<job_dir, sem_waiters, compile_rc>>

\* readline returned a line
ReadLine(k) ==
    /\ mainpc = "loop"
    /\ Started
    /\ pc[k] \in {"compile_read", "run_read"}
    /\ nlines[k] < MaxLines
    /\ nlines' = [nlines EXCEPT ![k] = @ + 1]
    /\ UNCHANGED mainvars
    /\ UNCHANGED auxvars
    /\ UNCHANGED <<results, pc, exc, job_dir, sem_value, sem_waiters, proc, log_open,
                   spawns, compile_rc, first_done>>

\* readline returned b"": leave the with block, await proc.wait()
ReadEOF(k) ==
    /\ mainpc = "loop"
    /\ Started
    /\ pc[k] \in {"compile_read", "run_read"}
    /\ log_open' = [log_open EXCEPT ![k] = FALSE]
    /\ pc' = [pc EXCEPT ![k] = IF pc[k] = "compile_read" THEN "compile_wait"
                                                          ELSE "run_wait"]
    /\ UNCHANGED mainvars
    /\ UNCHANGED auxvars
    /\ UNCHANGED <<results, exc, job_dir, sem_value, sem_waiters, proc, spawns,
                   compile_rc, nlines, first_done>>

compile_failed_signal_only(exit_code) == exit_code < 0

\* "if result.exit_code != 0: return result"
compile_failed(exit_code) == exit_code # 0

\* proc.wait() of the compile step returned
CompileExit(k) ==
    /\ mainpc = "loop"
    /\ Started
    /\ pc[k] = "compile_wait"
    /\ \E code \in ExitCodes :
         /\ proc' = [proc EXCEPT ![k] = "exited"]
         /\ compile_rc' = [compile_rc EXCEPT ![k] = <<code>>]
         /\ IF compile_failed(code)
            THEN /\ results' = [results EXCEPT ![k].exit_code = <<code>>,
                                               ![k].end_time = TRUE,
                                               ![k].status = StatusOfExit(code)]
                 /\ pc' = [pc EXCEPT ![k] = "returned"]
                 /\ sem_value' = sem_release(sem_value)
                 /\ first_done' = IF first_done = <<>> THEN <<k>> ELSE first_done
            ELSE /\ results' = [results EXCEPT ![k].exit_code = <<code>>,
                                               ![k].end_time = TRUE,
                                               ![k].status = StatusOfExit(code),
                                               ![k].command = "run"]
                 /\ pc' = [pc EXCEPT ![k] = "run_spawn"]
                 /\ UNCHANGED <<sem_value, first_done>>
    /\ UNCHANGED mainvars
    /\ UNCHANGED auxvars
    /\ UNCHANGED <<exc, job_dir, sem_waiters, log_open, spawns, nlines>>

\* create_subprocess_exec for the surefire step (inside the try of run_job)
SpawnRun(k) ==
    /\ mainpc = "loop"
    /\ Started
    /\ pc[k] = "run_spawn"
    /\ \E ok \in BOOLEAN :
         IF ok
         THEN /\ proc' = [proc EXCEPT ![k] = "alive"]
              /\ spawns' = [spawns EXCEPT ![k] = @ + 1]
              /\ results' = [results EXCEPT ![k].start_time = TRUE,
                                            ![k].status = "running"]
              /\ log_open' = [log_open EXCEPT ![k] = TRUE]
              /\ nlines' = [nlines EXCEPT ![k] = 0]
              /\ pc' = [pc EXCEPT ![k] = "run_read"]
              /\ UNCHANGED <<sem_value, first_done>>
         ELSE /\ results' = [results EXCEPT ![k].status = "failed",
                                            ![k].end_time = TRUE]
              /\ pc' = [pc EXCEPT ![k] = "returned"]
              /\ sem_value' = sem_release(sem_value)
              /\ first_done' = IF first_done = <<>> THEN <<k>> ELSE first_done
              /\ UNCHANGED <<proc, spawns, log_open, nlines>>
    /\ UNCHANGED mainvars
    /\ UNCHANGED auxvars
    /\ UNCHANGED <<exc, job_dir, sem_waiters, compile_rc>>

\* proc.wait() of the surefire step returned
RunExit(k) ==
    /\ mainpc = "loop"
    /\ Started
    /\ pc[k] = "run_wait"
    /\ \E code \in ExitCodes :
         /\ proc' = [proc EXCEPT ![k] = "exited"]
         /\ results' = [results EXCEPT ![k].exit_code = <<code>>,
                                       ![k].end_time = TRUE,
                                       ![k].status = StatusOfExit(code)]
    /\ pc' = [pc EXCEPT ![k] = "returned"]
    /\ sem_value' = sem_release(sem_value)
    /\ first_done' = IF first_done = <<>> THEN <<k>> ELSE first_done
    /\ UNCHANGED mainvars
    /\ UNCHANGED auxvars
    /\ UNCHANGED <<exc, job_dir, sem_waiters, log_open, spawns, compile_rc, nlines>>

\* ------------------------------------------- main_async: completion loop
DonePcs == {"returned", "raised", "cancelled"}

Perms(S) == {s \in [1..Cardinality(S) -> S] : Distinct(s)}

FindExec_first(es, exec_id) == es[1]

\* next((ev for ev in execs if ev.execution_id == exec_id), None)
FindExec(es, exec_id) == es[CHOOSE i \in 1..Len(es) : es[i] = exec_id]

FailedResult_placeholder(e) == QueuedResult(e)

\* the entry the except branch builds for a task that raised
FailedResult(e) == JobResult("failed", e, TRUE, TRUE, <<-1>>, "None")

\* "for t in done": t.result() re-raises CancelledError, which "except
\* Exception" does not catch; in the except branch res.log_path.open("a")
\* raises when the job directory does not exist.  Either ends main_async.
RECURSIVE collect(_, _, _)
collect(order, res, tk) ==
    IF order = <<>> THEN [results |-> res, tasks |-> tk, aborted |-> FALSE]
    ELSE LET k == Head(order)
         IN  IF pc[k] = "cancelled"
             THEN [results |-> res, tasks |-> tk, aborted |-> TRUE]
             ELSE IF pc[k] = "raised"
             THEN IF job_dir[k]
                  THEN collect(Tail(order),
                               [res EXCEPT ![k] = FailedResult(FindExec(execs, k))],
                               tk \ {k})
                  ELSE [results |-> res, tasks |-> tk, aborted |-> TRUE]
             ELSE collect(Tail(order), [res EXCEPT ![k] = res[k]], tk \ {k})

\* one iteration of "while tasks": asyncio.wait returns every finished task
Collect ==
    /\ mainpc = "loop"
    /\ Started
    /\ LET done == {k \in tasks : pc[k] \in DonePcs}
       IN  /\ done # {}
           /\ \E order \in Perms(done) :
                LET r == collect(order, results, tasks)
                IN  /\ results' = r.results
                    /\ tasks' = r.tasks
                    /\ mainpc' = IF r.aborted THEN "aborted" ELSE "loop"
    /\ UNCHANGED <<jobs, execs, rc, sem_value, sem_waiters, stop, sigint_handler,
                   first_done, report, report_written>>
    /\ UNCHANGED jobvars
    /\ UNCHANGED auxvars

exit_status_zero(failed) == 0

\* "return 0 if failed == 0 else 2"
exit_status(failed) == IF failed = 0 THEN 0 ELSE 2

\* the loop has emptied tasks: build and write the reports, return
WriteReport ==
    /\ mainpc = "loop"
    /\ Started
    /\ tasks = {}
    /\ report' = make_report_json(results)
    /\ report_written' = TRUE
    /\ rc' = <<exit_status(count_status(results, "failed"))>>
    /\ mainpc' = "done"
    /\ UNCHANGED <<jobs, execs, results, tasks, sem_value, sem_waiters, stop,
                   sigint_handler, first_done>>
    /\ UNCHANGED jobvars
    /\ UNCHANGED auxvars

\* ------------------------------------------------------------------- main
\* handle_sigint: removes itself and sets the event; nothing waits on the event
Sigint ==
    /\ mainpc = "loop"
    /\ sigint_handler
    /\ stop' = TRUE
    /\ sigint_handler' = FALSE
    /\ UNCHANGED <<jobs, execs, mainpc, rc, results, tasks, sem_value, sem_waiters,
                   first_done, report, report_written>>
    /\ UNCHANGED jobvars
    /\ UNCHANGED auxvars

\* ---------------------------------------------------------- cancellation
CompilePcs == {"compile_spawn", "compile_read", "compile_wait"}

RunPcs == {"run_spawn", "run_read", "run_wait"}

ActivePcs == CompilePcs \cup RunPcs

\* CancelledError delivered to a job task at the await it is suspended in.
\* Waiting for the slot: the task ends without having held it.  In the
\* compile step nothing catches it; in the surefire step "except
\* asyncio.CancelledError" records the status and re-raises.  The with block
\* closes the log; nothing terminates the child process.
CancelTask(k) ==
    /\ mainpc = "loop"
    /\ Started
    /\ pc[k] \in {"waiting"} \cup ActivePcs
    /\ pc' = [pc EXCEPT ![k] = "cancelled"]
    /\ first_done' = IF first_done = <<>> THEN <<k>> ELSE first_done
    /\ log_open' = [log_open EXCEPT ![k] = FALSE]
    /\ IF pc[k] = "waiting"
       THEN /\ sem_waiters' = SelectSeq(sem_waiters, LAMBDA w : w # k)
            /\ UNCHANGED <<sem_value, results>>
       ELSE /\ sem_value' = sem_release(sem_value)
            /\ results' = IF pc[k] \in RunPcs
                          THEN [results EXCEPT ![k].status = "cancelled",
                                               ![k].end_time = TRUE]
                          ELSE results
            /\ UNCHANGED sem_waiters
    /\ UNCHANGED mainvars
    /\ UNCHANGED auxvars
    /\ UNCHANGED <<exc, job_dir, proc, spawns, compile_rc, nlines>>

\* ----------------------------------------------------------- status_printer
\* what the loop of status_printer does to the job table between two sleeps
table_after_print_trimmed(res) ==
    [k \in DOMAIN res |-> IF res[k].status = "running"
                          THEN [res[k] EXCEPT !.start_time = TRUE,
                                              !.command = "None"]
                          ELSE res[k]]

\* summarize, the rows of the running jobs and the write to stderr read the
\* table; nothing is assigned to it
table_after_print(res) == res

\* most turns of the loop of status_printer
MaxPrints == 1

\* One turn of the loop of status_printer, from the return of asyncio.sleep to
\* the next one: summarize the table, pick the running rows, write the lines
\* to stderr, count the turn.  The task exists from its create_task after the
\* job tasks until main_async cancels it behind the completion loop.
StatusPrinter ==
    /\ mainpc = "loop"
    /\ Started
    /\ printed < MaxPrints
    /\ printed' = printed + 1
    /\ results' = table_after_print(results)
    /\ UNCHANGED <<pom, pattern, args_list, job, paths, names, copied>>
    /\ UNCHANGED <<jobs, execs, mainpc, rc, tasks, sem_value, sem_waiters, stop,
                   sigint_handler, first_done, report, report_written>>
    /\ UNCHANGED jobvars

\* ---------------------------------------------------------- specifications
Next ==
    \/ DiscoveryError
    \/ ListOnly
    \/ NoExecs
    \/ Schedule
    \/ \E k \in Ids : TaskStart(k)
    \/ \E k \in Ids : Admit(k)
    \/ \E k \in Ids : SpawnCompile(k)
    \/ \E k \in Ids : ReadLine(k)
    \/ \E k \in Ids : ReadEOF(k)
    \/ \E k \in Ids : CompileExit(k)
    \/ \E k \in Ids : SpawnRun(k)
    \/ \E k \in Ids : RunExit(k)
    \/ Collect
    \/ WriteReport

Spec == Init /\ [][Next]_vars

\* the run with an interactive interrupt
NextSigint ==
    \/ Next
    \/ Sigint

SpecSigint == Init /\ [][NextSigint]_vars

\* the run with job tasks that may be cancelled from outside
NextCancel ==
    \/ Next
    \/ \E k \in Ids : CancelTask(k)

SpecCancel == Init /\ [][NextCancel]_vars

\* the run with the status printer writing between the steps of the jobs
NextPrinter ==
    \/ Next
    \/ StatusPrinter

SpecPrinter == Init /\ [][NextPrinter]_vars

\* The run in which what can happen does happen: the event loop runs every
\* task that is ready, a readline and a proc.wait() that are awaited return
\* (every process writes finitely many lines and exits).
SpecLive == Init /\ [][Next]_vars /\ WF_vars(Next)

\* make_report_json alone, on any result set
ResultSets ==
    UNION {[S -> Statuses] : S \in SUBSET IdPool(MaxReportN)}

InitReport ==
    /\ \E st \in ResultSets :
         results = [k \in DOMAIN st |->
                      JobResult(st[k], k, FALSE, FALSE, <<>>, "None")]
    /\ execs = <<>>
    /\ pom = <<>>
    /\ pattern = <<>>
    /\ args_list = FALSE
    /\ InitIdle
    /\ jobs = 1
    /\ mainpc = "report_only"
    /\ pc = <<>>
    /\ exc = <<>>
    /\ job_dir = <<>>
    /\ proc = <<>>
    /\ log_open = <<>>
    /\ spawns = <<>>
    /\ compile_rc = <<>>
    /\ nlines = <<>>
    /\ sem_value = 0
    /\ InitCommon

BuildReport ==
    /\ mainpc = "report_only"
    /\ report' = make_report_json(results)
    /\ report_written' = TRUE
    /\ mainpc' = "report_built"
    /\ UNCHANGED <<jobs, execs, rc, results, tasks, sem_value, sem_waiters, stop,
                   sigint_handler, first_done>>
    /\ UNCHANGED jobvars
    /\ UNCHANGED auxvars

NextReport == BuildReport

SpecReport == InitReport /\ [][NextReport]_vars

\* ------------------------------------------------------- sanitize_for_path
\* Characters of an execution id, as codes: 1 is "a" and 5 is "_" (both kept by
\* the pattern [^A-Za-z0-9._-]), 6 is " " and 7 is "/" (both replaced).
PathChars == {1, 5, 6, 7}

SafeChars == {1, 5}

Underscore == 5

\* longest execution id drawn character by character
MaxIdLen == 2

\* "if len(safe) > 150" and "safe[:120]"
MaxSafeLen == 150

KeepLen == 120

\* the positions of s that re.sub keeps: a kept character, or the first of a
\* run of replaced characters
KeptPositions(s) ==
    SelectSeq([i \in 1..Len(s) |-> i],
              LAMBDA i : s[i] \in SafeChars \/ i = 1 \/ s[i - 1] \in SafeChars)

\* re.sub(r"[^A-Za-z0-9._-]+", "_", s): every maximal run of replaced
\* characters becomes one "_"
re_sub(s) ==
    LET keep == KeptPositions(s)
    IN  [j \in 1..Len(keep) |->
            IF s[keep[j]] \in SafeChars THEN s[keep[j]] ELSE Underscore]

\* hashlib.sha1(safe.encode()).hexdigest()[:8], taken as free of collisions:
\* the digest of a string is the string
sha1_8(safe) == <<safe>>

\* The returned name: its text, followed by the digest if there is one.
sanitize_for_path(s) ==
    LET safe == re_sub(s)
    IN  IF Len(safe) > MaxSafeLen
        THEN [text |-> SubSeq(safe, 1, KeepLen) \o <<Underscore>>,
              digest |-> sha1_8(safe)]
        ELSE [text |-> safe, digest |-> <<>>]

\* out_dir / sanitize_for_path(e.execution_id) / "build.log"
log_path(execution_id) == <<"out_dir", sanitize_for_path(execution_id), "build.log">>

\* Path(str(result.log_path)).parent
job_root(execution_id) == SubSeq(log_path(execution_id), 1, 2)

\* job_root / "work"
work_dir(execution_id) == Append(job_root(execution_id), "work")

RECURSIVE ShortIds(_)
\* the non-empty ids of at most n characters
ShortIds(n) ==
    IF n = 0 THEN {}
    ELSE ShortIds(n - 1) \cup [1..n -> PathChars]

\* ids longer than MaxSafeLen: "a" repeated, and "a" repeated ending in " " or "/"
LongIds ==
    {[i \in 1..(MaxSafeLen + 1) |-> IF i = MaxSafeLen + 1 THEN c ELSE 1] :
        c \in {1, 6, 7}}

PathIds == ShortIds(MaxIdLen) \cup LongIds

\* no job runs while the paths of two executions are derived
InitPath ==
    /\ \E a \in PathIds : \E b \in PathIds \ {a} : execs = <<a, b>>
    /\ pom = execs
    /\ pattern = <<>>
    /\ args_list = FALSE
    /\ InitIdle
    /\ jobs = 1
    /\ mainpc = "paths_only"
    /\ results = <<>>
    /\ pc = <<>>
    /\ exc = <<>>
    /\ job_dir = <<>>
    /\ proc = <<>>
    /\ log_open = <<>>
    /\ spawns = <<>>
    /\ compile_rc = <<>>
    /\ nlines = <<>>
    /\ sem_value = 0
    /\ InitCommon

\* the paths of every job: log_path from the results map of main_async,
\* work_dir from run_job
PreparePaths ==
    /\ mainpc = "paths_only"
    /\ paths' = [k \in Ids |->
                   [log_path |-> log_path(k), work_dir |-> work_dir(k)]]
    /\ mainpc' = "paths_done"
    /\ UNCHANGED <<pom, pattern, args_list, job, names, copied, printed>>
    /\ UNCHANGED <<jobs, execs, rc, results, tasks, sem_value, sem_waiters, stop,
                   sigint_handler, first_done, report, report_written>>
    /\ UNCHANGED jobvars

NextPath == PreparePaths

SpecPath == InitPath /\ [][NextPath]_vars

\* ---------------------------------------------------- one job, in detail
\* run_job and stream_process for a single job, with the content of its
\* output, of its log file and of its tail.  job is a record:
\*   pc          where run_job is
\*   existed     did the work directory exist when run_job started
\*   work_exists does it exist now
\*   copies      calls of shutil.copytree
\*   cwds        the cwd of every process spawned
\*   status, exit_code   result.status, result.exit_code
\*   every       every how many lines the output has a line ending in blanks
\*   emitted     the lines the current process has written, all of them read
\*   launched    the lines every process of the job has written
\*   log         the content of result.log_path
\*   tail        last_lines of stream_process
\*   last_lines  result.last_lines

\* "tail_max = 8"
tail_max == 8

\* most lines one process writes
MaxEmit == 10

BlankEvery == {2, 3}

\* The n-th line of output of the job, without its line terminator: text is
\* what it says, trail how many blanks it ends in.  The output is valid UTF-8.
Line(n, every) == [text |-> n, trail |-> IF n % every = 0 THEN 1 ELSE 0]

\* what the except clauses of run_job append to the log
RunnerException == [text |-> 0, trail |-> 0]

\* line.decode(errors="replace").rstrip()
rstrip(line) == [line EXCEPT !.trail = 0]

push_tail_drop_newest(last_lines, sline) ==
    LET appended == Append(last_lines, sline)
    IN  IF Len(appended) > tail_max THEN SubSeq(appended, 1, tail_max)
        ELSE appended

\* last_lines.append(sline); if len(last_lines) > tail_max: last_lines.pop(0)
push_tail(last_lines, sline) ==
    LET appended == Append(last_lines, sline)
    IN  IF Len(appended) > tail_max THEN Tail(appended) ELSE appended

needs_copy_always(exists) == TRUE

\* "if not work_dir.exists()"
needs_copy(exists) == ~exists

\* main_async is not running
CoreIdle ==
    /\ pom = execs
    /\ pattern = <<>>
    /\ args_list = FALSE
    /\ jobs = 1
    /\ results = <<>>
    /\ pc = <<>>
    /\ exc = <<>>
    /\ job_dir = <<>>
    /\ proc = <<>>
    /\ log_open = <<>>
    /\ spawns = <<>>
    /\ compile_rc = <<>>
    /\ nlines = <<>>
    /\ sem_value = 0
    /\ InitCommon

InitJob ==
    /\ execs \in {<<AllIds[1]>>, <<AllIds[2]>>}
    /\ mainpc = "job_only"
    /\ \E existed \in BOOLEAN : \E every \in BlankEvery :
         job = [pc |-> "enter", existed |-> existed, work_exists |-> existed,
                copies |-> 0, cwds |-> <<>>, status |-> "queued",
                exit_code |-> <<>>, every |-> every, emitted |-> <<>>,
                launched |-> <<>>, log |-> <<>>, tail |-> <<>>,
                last_lines |-> <<>>]
    /\ paths = <<>>
    /\ names = {}
    /\ copied = {}
    /\ printed = 0
    /\ CoreIdle

JobUnchanged ==
    /\ UNCHANGED corevars
    /\ UNCHANGED <<pom, pattern, args_list, paths, names, copied, printed>>

\* run_job up to its first await: the work directory is copied if it is not
\* there; copytree may raise, which ends run_job
WorkspaceAcquire ==
    /\ mainpc = "job_only"
    /\ job.pc = "enter"
    /\ IF needs_copy(job.work_exists)
       THEN \E ok \in BOOLEAN :
              job' = [job EXCEPT !.status = "queued",
                                 !.copies = @ + 1,
                                 !.work_exists = TRUE,
                                 !.pc = IF ok THEN "compile_spawn" ELSE "raised"]
       ELSE job' = [job EXCEPT !.status = "queued", !.pc = "compile_spawn"]
    /\ JobUnchanged

\* stream_process up to its first readline: the process is spawned in
\* work_dir, the log file is opened with mode "wb".  A spawn that raises ends
\* run_job in the compile step and is caught in the surefire step.
StreamSpawn ==
    /\ mainpc = "job_only"
    /\ job.pc \in {"compile_spawn", "run_spawn"}
    /\ \E ok \in BOOLEAN :
         IF ok
         THEN job' = [job EXCEPT !.cwds = Append(@, work_dir(execs[1])),
                                 !.status = "running",
                                 !.emitted = <<>>,
                                 !.tail = <<>>,
                                 !.log = <<>>,
                                 !.pc = IF job.pc = "compile_spawn"
                                        THEN "compile_read" ELSE "run_read"]
         ELSE IF job.pc = "compile_spawn"
         THEN job' = [job EXCEPT !.pc = "raised"]
         ELSE job' = [job EXCEPT !.status = "failed",
                                 !.log = Append(@, RunnerException),
                                 !.pc = "returned"]
    /\ JobUnchanged

\* one turn of the loop of stream_process with a line read
StreamLine ==
    /\ mainpc = "job_only"
    /\ job.pc \in {"compile_read", "run_read"}
    /\ Len(job.emitted) < MaxEmit
    /\ LET line == Line(Len(job.launched) + 1, job.every)
           last_lines == push_tail(job.tail, rstrip(line))
       IN  job' = [job EXCEPT !.emitted = Append(@, line),
                              !.launched = Append(@, line),
                              !.log = Append(@, line),
                              !.tail = last_lines,
                              !.last_lines = last_lines]
    /\ JobUnchanged

\* readline returned b"": the log file is closed, proc.wait() awaited
StreamEOF ==
    /\ mainpc = "job_only"
    /\ job.pc \in {"compile_read", "run_read"}
    /\ job' = [job EXCEPT !.pc = IF job.pc = "compile_read" THEN "compile_wait"
                                                           ELSE "run_wait"]
    /\ JobUnchanged

\* proc.wait() returned; run_job returns after a compile step that failed
\* and after the surefire step
StreamExit ==
    /\ mainpc = "job_only"
    /\ job.pc \in {"compile_wait", "run_wait"}
    /\ \E code \in ExitCodes :
         job' = [job EXCEPT !.exit_code = <<code>>,
                            !.status = StatusOfExit(code),
                            !.pc = IF job.pc = "compile_wait" /\ ~compile_failed(code)
                                   THEN "run_spawn" ELSE "returned"]
    /\ JobUnchanged

NextJob ==
    \/ WorkspaceAcquire
    \/ StreamSpawn
    \/ StreamLine
    \/ StreamEOF
    \/ StreamExit

SpecJob == InitJob /\ [][NextJob]_vars

\* ------------------------------------------------ run_job._ignore, copytree
\* An entry name is a sequence of pieces of text, "targets" being
\* <<"target", "s">>: it equals a string if it is that one piece, and starts
\* with it if that is its first piece.
NamePool ==
    { <<".git">>, <<".idea">>, <<"target">>, <<"fuzz-out">>, <<"target", "s">>,
      <<"hs_err_pid", "7">>, <<"crash-", "a">>, <<"src">> }

\* n in (".git", ".idea", "target", "fuzz-out")
InTuple(n) == n \in { <<".git">>, <<".idea">>, <<"target">>, <<"fuzz-out">> }

\* n.startswith(prefix)
startswith(n, prefix) == Head(n) = prefix

\* "return set(...) or {...}": the second set only if the first is empty
_ignore(ns) ==
    LET first == {n \in ns : InTuple(n)}
    IN  IF first # {} THEN first
        ELSE {n \in ns : startswith(n, "hs_err_pid") \/ startswith(n, "crash-")}

InitIgnore ==
    /\ names \in SUBSET NamePool
    /\ copied = {}
    /\ printed = 0
    /\ job = <<>>
    /\ execs = <<>>
    /\ paths = <<>>
    /\ mainpc = "copy_only"
    /\ CoreIdle

\* shutil.copytree on one directory of the base directory: every entry is
\* copied but the ones _ignore returns
CopyDirectory ==
    /\ mainpc = "copy_only"
    /\ copied' = names \ _ignore(names)
    /\ mainpc' = "copied"
    /\ UNCHANGED <<pom, pattern, args_list, job, paths, names, printed>>
    /\ UNCHANGED <<jobs, execs, rc, results, tasks, sem_value, sem_waiters, stop,
                   sigint_handler, first_done, report, report_written>>
    /\ UNCHANGED jobvars

NextIgnore == CopyDirectory

SpecIgnore == InitIgnore /\ [][NextIgnore]_vars

\* ------------------------------------------------------------------ claims
TestIds == [i \in 1..Len(report.tests) |-> report.tests[i].id]

CountTests(s) == Cardinality({i \in 1..Len(report.tests) : report.tests[i].status = s})

\* C1: when the report is built, its tests hold exactly one entry per
\* submitted spec id: as many entries as specs, no id twice, no id missing,
\* also when jobs ended by an exception in the workspace copy or the launch.
C1_OneResultPerSpec ==
    report_written =>
        /\ Len(TestIds) = Len(execs)
        /\ Distinct(TestIds)
        /\ Range(TestIds) = Range(execs)
        /\ DOMAIN results = Range(execs)

\* a report over two or more jobs, one that raised and one that passed
C1_Witness ==
    /\ report_written
    /\ Len(execs) >= 2
    /\ \E k \in Ids : exc[k] # "none"
    /\ \E k \in Ids : results[k].status = "passed"

\* C2: at every instant the number of jobs inside run_job (workspace copy,
\* compile step, surefire step) is at most the ceiling --jobs.
C2_CeilingRespected == Cardinality({k \in Ids : pc[k] \in ActivePcs}) <= jobs

\* the ceiling is reached while another job waits for a slot
C2_Witness ==
    /\ Cardinality({k \in Ids : pc[k] \in ActivePcs}) = jobs
    /\ \E k \in Ids : pc[k] = "waiting"

\* C3: once the status of an entry of the results table is passed, failed or
\* cancelled, no step changes it.
C3_TerminalStatusAbsorbing ==
    [][\A k \in DOMAIN results :
          results[k].status \in Terminal => results'[k].status = results[k].status]_vars

\* C4: a job whose compile step exited non-zero has status failed, has left
\* run_job, and exactly one process was ever spawned for it; the report
\* shows it as failed.
C4_CompileFailureSkipsRun ==
    \A k \in Ids :
        (compile_rc[k] # <<>> /\ compile_rc[k][1] # 0) =>
            /\ spawns[k] = 1
            /\ pc[k] = "returned"
            /\ results[k].status = "failed"
            /\ report_written =>
                 \A i \in 1..Len(report.tests) :
                     report.tests[i].id = k => report.tests[i].status = "failed"

\* a finished run with a job whose compile step exited 1
C4_Witness ==
    /\ report_written
    /\ \E k \in Ids : compile_rc[k] = <<1>>

\* C5: once handle_sigint has run, no job waiting for a slot is admitted, no
\* further process is spawned, and a run that ends has an entry for every
\* spec, with status cancelled for each job that never got a slot.
C5_SigintStopsAdmission ==
    [][stop =>
         /\ \A k \in Ids : pc[k] = "waiting" => pc'[k] \in {"waiting", "cancelled"}
         /\ spawns' = spawns
         /\ report_written' =>
              /\ DOMAIN results' = Range(execs)
              /\ \A k \in Ids : pc'[k] = "waiting" => results'[k].status = "cancelled"]_vars

\* C6: a job task cancelled while its compile or surefire process executes
\* ends with status cancelled, with the child process not alive and the log
\* file closed.
C6_CancelledJobCleansUp ==
    [][\A k \in Ids :
          (pc[k] \in {"compile_read", "compile_wait", "run_read", "run_wait"}
             /\ pc'[k] = "cancelled") =>
              /\ results'[k].status = "cancelled"
              /\ proc'[k] # "alive"
              /\ ~log_open'[k]]_vars

\* C7: a job that raised (workspace copy failed, destination not creatable,
\* process not spawnable) does not end the completion loop, and once
\* collected its entry is a failed result.
C7_JobErrorsIsolated ==
    \A k \in Ids :
        pc[k] = "raised" =>
            /\ mainpc # "aborted"
            /\ k \notin tasks => results[k].status = "failed"

\* C8: a run that has begun scheduling and has ended has written the report.
C8_ReportAlwaysWritten ==
    (mainpc \notin {"start", "returned", "loop"}) => report_written

\* C9: in every report, summary.total is the number of tests entries and
\* summary.passed / failed / cancelled are the numbers of tests entries with
\* that status; for the empty result set all four are 0.
C9_SummaryIsAggregate ==
    report_written =>
        /\ report.summary.total = Len(report.tests)
        /\ report.summary.passed = CountTests("passed")
        /\ report.summary.failed = CountTests("failed")
        /\ report.summary.cancelled = CountTests("cancelled")
        /\ DOMAIN results = {} =>
             report.summary = [total |-> 0, passed |-> 0, failed |-> 0, cancelled |-> 0]

\* a report over a mixture: one passed, one failed, one cancelled entry
C9_Witness ==
    /\ report_written
    /\ report.summary.passed = 1
    /\ report.summary.failed = 1
    /\ report.summary.cancelled = 1

\* C10: the tests entries of the report are in strictly ascending order of
\* execution id, whatever order the jobs were submitted and finished in.
C10_TestsAscendingById ==
    report_written =>
        \A i, j \in 1..Len(report.tests) :
            i < j => LexLess(report.tests[i].id, report.tests[j].id)

\* a report over several jobs that were submitted in descending order of id
\* and of which the first to finish was not the first submitted
C10_Witness ==
    /\ report_written
    /\ Len(report.tests) >= 2
    /\ LexLess(execs[2], execs[1])
    /\ first_done # <<>>
    /\ first_done[1] # execs[1]

C12_WorkspacesDisjoint ==
    mainpc = "paths_done" =>
        \A a \in DOMAIN paths : \A b \in DOMAIN paths :
            a # b =>
                /\ paths[a].work_dir # paths[b].work_dir
                /\ paths[a].log_path # paths[b].log_path

\* the last n elements of a sequence
LastOf(s, n) == SubSeq(s, Len(s) - n + 1, Len(s))

Min(a, b) == IF a < b THEN a ELSE b

\* C13, as the specification has it: once a process has written k >= 1 lines and stream_process
\* has read them, the job's last_lines holds at most 8 lines and is exactly
\* the last min(k, 8) lines written, in their order.
C13_TailIsLastLines ==
    (mainpc = "job_only" /\ Len(job.emitted) >= 1) =>
        /\ Len(job.last_lines) <= tail_max
        /\ job.last_lines = LastOf(job.emitted, Min(Len(job.emitted), tail_max))

\* C13, as the program has it: ... and is the last min(k, 8) lines written, in their order,
\* each without the blanks it ends in.
C13_TailIsLastLinesStripped ==
    (mainpc = "job_only" /\ Len(job.emitted) >= 1) =>
        /\ Len(job.last_lines) <= tail_max
        /\ LET n == Min(Len(job.emitted), tail_max)
               last == LastOf(job.emitted, n)
           IN  job.last_lines = [i \in 1..n |-> rstrip(last[i])]

\* more than 8 lines were read, and one of the last 8 ends in blanks
C13_Witness ==
    /\ mainpc = "job_only"
    /\ Len(job.emitted) > tail_max
    /\ \E i \in 1..tail_max : LastOf(job.emitted, tail_max)[i].trail > 0

\* the lines of a log file that are output of a process
OutputLines(log) == SelectSeq(log, LAMBDA l : l # RunnerException)

\* C14: once run_job has returned with a terminal status, the job's log file
\* holds every line written by every process the job launched, in the order
\* they were written.
C14_LogKeepsEveryLine ==
    (mainpc = "job_only" /\ job.pc = "returned" /\ job.status \in Terminal) =>
        OutputLines(job.log) = job.launched

\* C19: a work directory that exists when run_job starts is reused and
\* copytree is never called; one that does not exist is copied by exactly one
\* call of copytree; either way every process of the job runs in the work
\* directory of the job's id.
C19_WorkspaceAcquiredOnce ==
    (mainpc = "job_only" /\ job.pc # "enter") =>
        /\ job.existed => job.copies = 0
        /\ ~job.existed => job.copies = 1
        /\ \A i \in 1..Len(job.cwds) : job.cwds[i] = work_dir(execs[1])

\* both processes of a job ran, in a work directory that was there before
C19_Witness ==
    /\ mainpc = "job_only"
    /\ job.existed
    /\ job.copies = 0
    /\ Len(job.cwds) = 2
    /\ job.pc = "returned"

\* the job has acquired its slot, now or earlier
Admitted(k) == pc[k] \notin {"none", "created", "waiting"}

NothingCreated ==
    /\ mainpc \in {"discovery_error", "returned"}
    /\ results = <<>>
    /\ tasks = {}
    /\ ~report_written

\* main_async raised, or returned a value other than 0
ErrorOutcome ==
    \/ mainpc = "discovery_error"
    \/ mainpc = "returned" /\ rc # <<>> /\ rc # <<0>>

\* C16, as the specification has it: when the profile has no execution or the filter leaves none,
\* the run ends with an error outcome, and no job task, no process, no copy
\* and no report have been made.
C16_NoExecutionsIsAnError ==
    (execs = <<>> /\ mainpc # "start") => (NothingCreated /\ ErrorOutcome)

\* C16, as the program has it: ... the run ends before any job task, process, copy or
\* report is made; it ends with an error outcome, except that with --list and
\* a profile that has executions the empty list is printed and 0 is returned.
C16_NoExecutionsEndsTheRun ==
    (execs = <<>> /\ mainpc # "start") =>
        /\ NothingCreated
        /\ IF args_list /\ pom # <<>> THEN rc = <<0>> ELSE ErrorOutcome

\* the filter left nothing of a profile that has executions
C16_Witness ==
    /\ pom # <<>>
    /\ execs = <<>>
    /\ ~args_list
    /\ mainpc = "returned"
    /\ rc = <<1>>

\* C17: a job whose copy of the base directory failed ends with status
\* errored, and no process was spawned for it.
C17_IsolationFailureIsErrored ==
    \A k \in Ids :
        (mainpc \in {"done", "aborted"} /\ pc[k] = "raised"
            /\ exc[k] \in {"copy_error", "mkdir_error"}) =>
                /\ results[k].status = "errored"
                /\ spawns[k] = 0

\* the name matches an exclusion pattern
Excluded(n) ==
    \/ InTuple(n)
    \/ startswith(n, "hs_err_pid")
    \/ startswith(n, "crash-")

\* C18: of the entries of a directory that is copied, exactly those whose name
\* matches no exclusion pattern are copied.
C18_ExcludedEntriesNotCopied ==
    mainpc = "copied" => \A n \in names : n \in copied <=> ~Excluded(n)

\* the compile step of the job exited 0, its surefire process was spawned and
\* waited for, and run_job has returned
RanToCompletion(k) ==
    /\ pc[k] = "returned"
    /\ compile_rc[k] = <<0>>
    /\ spawns[k] = 2
    /\ proc[k] = "exited"

\* C20: a job whose compile step exited 0 and whose surefire process ran to
\* its end has status passed exactly if that process exited 0, and status
\* failed exactly if it exited with another code.
C20_StatusFollowsExitCode ==
    \A k \in Ids :
        RanToCompletion(k) =>
            /\ results[k].exit_code # <<>>
            /\ results[k].status = "passed" <=> results[k].exit_code = <<0>>
            /\ results[k].status = "failed" <=> results[k].exit_code # <<0>>

\* a surefire process that exited with a code other than 0
C20_Witness ==
    \E k \in Ids :
        /\ RanToCompletion(k)
        /\ results[k].exit_code = <<1>>
        /\ results[k].status = "failed"

\* the jobs that are inside run_job
InRunJob == {k \in Ids : pc[k] \in ActivePcs}

\* C21: the slots taken are those of the jobs inside run_job: a job waiting
\* for admission holds none, a job that has left run_job by return, exception
\* or cancellation holds none, and when every job has ended all slots are free.
C21_SlotHeldWhileInRunJob ==
    mainpc \in {"loop", "done", "aborted"} =>
        /\ sem_value = jobs - Cardinality(InRunJob)
        /\ (\A k \in Ids : pc[k] \in DonePcs) => sem_value = jobs

\* every job has ended, one by cancellation in its surefire step, one by an
\* exception
C21_Witness ==
    /\ mainpc = "loop"
    /\ \A k \in Ids : pc[k] \in DonePcs
    /\ \E k \in Ids : pc[k] = "cancelled" /\ results[k].status = "cancelled"
    /\ \E k \in Ids : pc[k] = "raised"
    /\ sem_value = jobs

\* C22: when main_async has built the report, every entry of results has a
\* terminal status, none is queued or running, and the total of the summary
\* is the sum of its passed, failed and cancelled counts.
C22_ReportAfterAllTerminal ==
    report_written =>
        /\ \A k \in DOMAIN results : results[k].status \in Terminal
        /\ report.summary.total =
             report.summary.passed + report.summary.failed
               + report.summary.cancelled

\* a report over a job that ran to its end and a job whose task raised
C22_Witness ==
    /\ report_written
    /\ mainpc = "done"
    /\ \E k \in Ids : pc[k] = "raised"
    /\ \E k \in Ids : pc[k] = "returned" /\ spawns[k] = 2

RunCompleted ==
    /\ mainpc = "done"
    /\ tasks = {}
    /\ \A k \in Ids : results[k].status \in Terminal

\* C24: once the jobs are scheduled (the ceiling is at least 1 and every
\* process exits), eventually every job has a terminal status, the pending
\* set of the completion loop is empty and main_async has returned.
C24_RunTerminates == (mainpc = "loop") ~> RunCompleted

\* C25: in the results main_async ends with, an entry has status passed
\* exactly if its exit code is 0.
C25_StatusAgreesWithExitCode ==
    mainpc = "done" =>
        \A k \in DOMAIN results :
            results[k].status = "passed" <=> results[k].exit_code = <<0>>

====
